---- MODULE Spec2Model ----
(***************************************************************************)
(* Model of the Rust benchmark runner (runners/s3-benchrunner-rust):       *)
(* main/execute run loop (src/main.rs), BenchmarkConfig::new and           *)
(* prepare_run (src/lib.rs), TransferManagerRunner (src/transfer_manager.rs)*)
(* with its JoinSet based per-object scheduler.                            *)
(*                                                                         *)
(* Library semantics used (tokio JoinSet): join_next() yields the tasks in *)
(* the order they completed; dropping the JoinSet aborts every task that   *)
(* is still in it.  An aborted task stops at its next await point, unless  *)
(* the poll that is in progress finishes it.                               *)
(***************************************************************************)
EXTENDS Integers, Sequences, FiniteSets, TLC

\* ---- bounds of the model ----
MaxRepeatCount == 2     \* largest maxRepeatCount drawn for a workload
MaxRepeatSecs == 2      \* largest maxRepeatSecs drawn for a workload
MaxTime == 2            \* the clock stops advancing at this reading
MaxSelTasks == 3        \* most tasks of a workload whose transfer strategy is selected
MaxPrepTasks == 2       \* most tasks of a workload that is prepared on disk
MaxSize == 10           \* largest size drawn for a task whose payload is generated
RandPrefix == 3          \* stands for 31415926, the most bytes filled with randomness
MaxBatches == 3         \* most batches exported to the queueing exporter
MaxFlushCalls == 2      \* most calls of flush_to_file on the clones of the exporter
MaxExports == 3         \* most calls of export on the JsonSpanExporter
MaxShutdowns == 2       \* most calls of shutdown on the JsonSpanExporter
Throughput == 44        \* target throughput of the runs, in tenths of a gigabit per second
MaxThroughput == 120    \* largest target throughput drawn when the transfer manager is sized

\* ---- program constants ----
SupportedVersion == 2
ExitOk == 0
ExitSkip == 123
ExitPanic == 101
ExitError == 1

\* ---- Option and Result values ----
None == [some |-> FALSE]
Some(x) == [some |-> TRUE, val |-> x]

Ok == [t |-> "Ok"]
\* an anyhow::Error: kind "Skip" wraps a SkipBenchmarkError, anything else is "Fail";
\* who names the step that raised it and idx the task index (NoTask if not a task)
NoTask == 0 - 1
Err(kind, who, idx) == [t |-> "Err", kind |-> kind, who |-> who, idx |-> idx]
\* a panic unwinding out of the call
Panicked(who, idx) == [t |-> "Panic", who |-> who, idx |-> idx]
Pending == [t |-> "Pending"]

\* ---- paths (std::path::Path over a normalised key) ----
\* A path is [abs |-> BOOLEAN, comps |-> sequence of component names].
Path(abs, comps) == [abs |-> abs, comps |-> comps]

\* Path::parent(): None for "" and "/", else the path without its last component
Parent(p) ==
    IF p.comps = <<>> THEN None
    ELSE Some(Path(p.abs, SubSeq(p.comps, 1, Len(p.comps) - 1)))

\* Path::ancestors(): the path itself, then its parent, ... down to "" or "/"
Ancestors(p) ==
    [k \in 1..(Len(p.comps) + 1) |->
        Path(p.abs, SubSeq(p.comps, 1, Len(p.comps) + 1 - k))]

\* common_root.ancestors().find(|a| task_path.ancestors().any(|t| t == a))
FindSharedAncestor(common_root, task_path) ==
    LET anc == Ancestors(common_root)
        tanc == {Ancestors(task_path)[k] : k \in 1..(Len(task_path.comps) + 1)}
        hits == {k \in 1..Len(anc) : anc[k] \in tanc}
    IN  IF hits = {} THEN None
        ELSE Some(anc[CHOOSE k \in hits : \A m \in hits : k <= m])

\* common_root.to_str() as a sequence of tokens
RECURSIVE JoinComps(_)
JoinComps(comps) ==
    IF comps = <<>> THEN <<>>
    ELSE IF Len(comps) = 1 THEN <<comps[1]>>
    ELSE <<comps[1], "/">> \o JoinComps(Tail(comps))

ToStr(p) == (IF p.abs THEN <<"/">> ELSE <<>>) \o JoinComps(p.comps)

\* format!("{}{}", common_root.to_str()?, MAIN_SEPARATOR)
WithSeparator(p) == ToStr(p) \o <<"/">>

\* slip: the actions of the tasks are not compared
RECURSIVE NarrowRoot_AnyAction(_, _, _)
NarrowRoot_AnyAction(tasks, common_root, j) ==
    IF j > Len(tasks) THEN [t |-> "Some", path |-> WithSeparator(common_root)]
    ELSE LET found == FindSharedAncestor(common_root, tasks[j].key)
         IN  IF ~found.some THEN [t |-> "None"]
             ELSE NarrowRoot_AnyAction(tasks, found.val, j + 1)

\* the for loop of find_common_parent_dir, from task j on
RECURSIVE NarrowRoot(_, _, _)
NarrowRoot(tasks, common_root, j) ==
    IF j > Len(tasks) THEN [t |-> "Some", path |-> WithSeparator(common_root)]
    ELSE LET found == FindSharedAncestor(common_root, tasks[j].key)
         IN  IF ~found.some THEN [t |-> "None"]
             ELSE IF tasks[j].action # tasks[1].action THEN [t |-> "Panic"]
             ELSE NarrowRoot(tasks, found.val, j + 1)

\* find_common_parent_dir: None, Some(prefix), or the panic on mixed actions
find_common_parent_dir(w, disable_directory) ==
    IF w.files_on_disk /\ ~disable_directory /\ Len(w.tasks) > 1
    THEN LET first_parent == Parent(w.tasks[1].key)
         IN  IF ~first_parent.some THEN [t |-> "None"]
             ELSE NarrowRoot(w.tasks, first_parent.val, 1)
    ELSE [t |-> "None"]

\* ---- workloads ----
Task(action, key, size) == [action |-> action, key |-> key, size |-> size]

Workload(version, files_on_disk, checksum, count, secs, tasks) ==
    [version |-> version, files_on_disk |-> files_on_disk, checksum |-> checksum,
     max_repeat_count |-> count, max_repeat_secs |-> secs, tasks |-> tasks]

\* the task lists drawn for a workload file: up to two tasks ...
SmallTaskLists ==
    { <<>>,
      <<Task("Upload", Path(FALSE, <<"k1">>), 1)>>,
      <<Task("Download", Path(FALSE, <<"a", "x">>), 1),
        Task("Download", Path(FALSE, <<"a", "y">>), 2)>>,
      <<Task("Upload", Path(FALSE, <<"a", "x">>), 1),
        Task("Upload", Path(FALSE, <<"b", "y">>), 1)>>,
      <<Task("Download", Path(FALSE, <<"a", "x">>), 1),
        Task("Upload", Path(FALSE, <<"a", "y">>), 1)>> }

\* ... and one of three tasks whose keys have no common ancestor
ThreeTasks ==
    <<Task("Download", Path(FALSE, <<"a", "x">>), 1),
      Task("Upload", Path(TRUE, <<"b", "y">>), 1),
      Task("Download", Path(FALSE, <<"c", "z">>), 1)>>

\* what main() is started with: the command, its arguments and the workload file
\* (file "missing": cannot be opened, "garbage": does not parse, "ok": parses to json)
Inputs ==
    [command : {"RunBenchmark"}, telemetry : BOOLEAN, disable_directory : {FALSE}, target_throughput : {Throughput}, file : {"missing", "garbage"},
     json : {Workload(SupportedVersion, FALSE, FALSE, 1, 1, <<>>)}]
    \cup
    [command : {"RunBenchmark"}, telemetry : {FALSE}, disable_directory : {FALSE}, target_throughput : {Throughput}, file : {"ok"},
     json : {Workload(v, FALSE, FALSE, 1, 1, <<>>) : v \in {1, 3}}]
    \cup
    [command : {"RunBenchmark"}, telemetry : BOOLEAN, disable_directory : {FALSE}, target_throughput : {Throughput}, file : {"ok"},
     json : {Workload(SupportedVersion, FALSE, FALSE, c, s, tl) :
                c \in 0..MaxRepeatCount, s \in 0..MaxRepeatSecs,
                tl \in SmallTaskLists}]
    \cup
    [command : {"RunBenchmark"}, telemetry : {FALSE}, disable_directory : BOOLEAN, target_throughput : {Throughput}, file : {"ok"},
     json : {Workload(SupportedVersion, TRUE, ck, c, s, tl) :
                ck \in BOOLEAN, c \in 0..MaxRepeatCount,
                s \in 0..MaxRepeatSecs, tl \in SmallTaskLists}]
    \cup
    [command : {"RunBenchmark"}, telemetry : {FALSE}, disable_directory : {FALSE}, target_throughput : {Throughput}, file : {"ok"},
     json : {Workload(SupportedVersion, fod, FALSE, c, s, ThreeTasks) :
                fod \in BOOLEAN, c \in 0..MaxRepeatCount, s \in 0..MaxRepeatSecs}]
    \cup
    [command : {"UploadOtlp"}, telemetry : {FALSE}, disable_directory : {FALSE}, target_throughput : {Throughput},
     file : {"missing"}, json : {Workload(SupportedVersion, FALSE, FALSE, 1, 1, <<>>)}]

VARIABLES
    args,        \* RunArgs and the workload file (never changes)
    pc,          \* where main/execute stands
    telemetry,   \* the TelemetryGuard held by execute: "none", "active", "down"
    runner,      \* Option<Handle>: the config's workload and transfer_path
    run_num,     \* loop variable of execute
    now,         \* the monotonic clock
    app_start,   \* Instant taken before the loop
    run_start,   \* Instant taken before run()
    run_secs,    \* run_start.elapsed() of the last measured run
    spawn_todo,  \* task indices the spawn loop of run() has still to visit
    task_set,    \* the JoinSet of run(): spawned tasks, [idx, st]
    completed,   \* positions in task_set in the order the tasks completed
    joined,      \* how many completions join_next() has handed out
    run_result,  \* result of the current run()
    exec_result, \* result of execute()
    exit_code,   \* exit status of the process, NotExited while it runs
    lines,       \* the "Run:<n> ..." lines printed, as their run numbers
    flushes,     \* the flushes of telemetry: [run, ok], one per call
    log,         \* phases the current loop iteration went through
    received,    \* bytes the bulk download wrote per task, <<>> before it ends
    fs,          \* the files and directories on disk, as [path, dir]
    rb_size,     \* new_random_bytes: the size asked for
    rb_pc,       \* new_random_bytes: where the function stands
    data,        \* new_random_bytes: the buffer
    stream,      \* upload: the body each upload task took, [idx, src, ok, val]
    span_exporter, \* the queueing SpanExporter, its clones and the trace files
    json_exporter  \* the JsonSpanExporter and what it wrote

vars == <<args, pc, telemetry, runner, run_num, now, app_start, run_start, run_secs,
          spawn_todo, task_set, completed, joined, run_result, exec_result,
          exit_code, lines, flushes, log, received, fs, rb_size, rb_pc, data,
          stream, span_exporter, json_exporter>>

\* the clones of the SpanExporter that flush (they share one queue)
Clones == 1..2

\* SpanExporter::new, exporter.rs 27-37: an empty queue; with it the state of
\* the calls on the exporter: the batches exported so far, the result of the
\* last export, where each clone stands in flush_to_file (with the number of the
\* call, its path and the batches it took), the number of calls made, the
\* calls that returned, and the trace files on disk
SpanExporter_new(files) ==
    [queued_batches |-> <<>>,
     exported |-> 0,
     export_result |-> None,
     flush |-> [c \in Clones |-> [pc |-> "idle", id |-> 0, path |-> "", taken |-> <<>>]],
     calls |-> 0,
     returned |-> <<>>,
     files |-> files]

\* JsonSpanExporter::new, trace_exporter.rs 11-18: the writer is stderr; with it
\* what was written to stderr, the calls of export and of shutdown made, and
\* the batch and the result of the last export
JsonSpanExporter_new ==
    [writer |-> TRUE, out |-> <<>>, exports |-> 0, shutdowns |-> 0,
     batch |-> <<>>, result |-> None]

NotExited == 0 - 1

Init ==
    /\ args \in Inputs
    /\ pc = IF args.command = "RunBenchmark" THEN "execute" ELSE "upload_otlp"
    /\ telemetry = "none"
    /\ runner = None
    /\ run_num = 0
    /\ now = 0
    /\ app_start = 0
    /\ run_start = 0
    /\ run_secs = 0
    /\ spawn_todo = <<>>
    /\ task_set = <<>>
    /\ completed = <<>>
    /\ joined = 0
    /\ run_result = Pending
    /\ exec_result = Pending
    /\ exit_code = NotExited
    /\ lines = <<>>
    /\ flushes = <<>>
    /\ log = <<>>
    /\ received = <<>>
    /\ stream = {}
    /\ span_exporter = SpanExporter_new({})
    /\ json_exporter = JsonSpanExporter_new
    /\ fs = {}
    /\ rb_size = 0
    /\ rb_pc = "idle"
    /\ data = <<>>

\* ---- lib.rs ----

\* slip: a file that cannot be opened is skipped like one that does not parse
BenchmarkConfig_new_OpenSkips(a) ==
    IF a.file = "missing" THEN Err("Skip", "open", NoTask)
    ELSE IF a.file = "garbage" THEN Err("Skip", "parse", NoTask)
    ELSE IF a.json.version # SupportedVersion THEN Err("Skip", "version", NoTask)
    ELSE [t |-> "Ok", workload |-> a.json,
          target_throughput_gigabits_per_sec |-> a.target_throughput,
          disable_directory |-> a.disable_directory]

\* slip: the version of the workload is not looked at
BenchmarkConfig_new_AnyVersion(a) ==
    IF a.file = "missing" THEN Err("Fail", "open", NoTask)
    ELSE IF a.file = "garbage" THEN Err("Skip", "parse", NoTask)
    ELSE [t |-> "Ok", workload |-> a.json,
          target_throughput_gigabits_per_sec |-> a.target_throughput,
          disable_directory |-> a.disable_directory]

\* slip: a file that does not parse is an ordinary error
BenchmarkConfig_new_ParseFails(a) ==
    IF a.file = "missing" THEN Err("Fail", "open", NoTask)
    ELSE IF a.file = "garbage" THEN Err("Fail", "parse", NoTask)
    ELSE IF a.json.version # SupportedVersion THEN Err("Skip", "version", NoTask)
    ELSE [t |-> "Ok", workload |-> a.json,
          target_throughput_gigabits_per_sec |-> a.target_throughput,
          disable_directory |-> a.disable_directory]

\* BenchmarkConfig::new
BenchmarkConfig_new(a) ==
    IF a.file = "missing" THEN Err("Fail", "open", NoTask)
    ELSE IF a.file = "garbage" THEN Err("Skip", "parse", NoTask)
    ELSE IF a.json.version # SupportedVersion THEN Err("Skip", "version", NoTask)
    ELSE [t |-> "Ok", workload |-> a.json,
          target_throughput_gigabits_per_sec |-> a.target_throughput,
          disable_directory |-> a.disable_directory]

\* ---- TransferManagerRunner::new, transfer_manager.rs 36-73 ----

Min(a, b) == IF a <= b THEN a ELSE b

\* slip: the payload is sized by the first Upload task
upload_data_size_First(w) ==
    LET ups == {j \in DOMAIN w.tasks : w.tasks[j].action = "Upload"}
    IN  IF w.files_on_disk \/ ups = {} THEN 0
        ELSE w.tasks[CHOOSE j \in ups : \A k \in ups : j <= k].size

\* lines 37-51: 0 for files on disk, else the largest size of an Upload task
upload_data_size(w) ==
    LET sizes == {w.tasks[i].size : i \in {j \in DOMAIN w.tasks : w.tasks[j].action = "Upload"}}
    IN  IF w.files_on_disk \/ sizes = {} THEN 0
        ELSE CHOOSE x \in sizes : \A y \in sizes : y <= x

\* slip: the throughput is rounded to the nearest gigabit per second
AsU64_Round(x) == (x + 5) \div 10

\* line 56: `as u64` of a non-negative f64 given in tenths: the fraction is cut off
AsU64(x) == x \div 10

\* lines 53-58: the concurrency the transfer manager is built with
ConcurrencyMode_TargetThroughput(config) ==
    [mode |-> "TargetThroughput",
     val |-> AsU64(config.target_throughput_gigabits_per_sec)]

\* lines 65-72: the Handle: the payload is kept as the length of the Bytes
NewHandle(config, transfer_path) ==
    [workload |-> config.workload,
     concurrency |-> ConcurrencyMode_TargetThroughput(config),
     random_data_for_upload |-> upload_data_size(config.workload),
     transfer_path |-> transfer_path]

\* prepare_run: the results it can give (the file system decides which)
prepare_run(w) ==
    IF w.files_on_disk /\ w.tasks # <<>>
    THEN {Ok, Err("Fail", "prepare_run", NoTask)}
    ELSE {Ok}

\* ---- the file system under prepare_run ----
\* A file system is a set of entries [path, dir]: a regular file or a directory.

EmptyPath == Path(FALSE, <<>>)

Entry(p, dir) == [path |-> p, dir |-> dir]

\* Path::is_file()
IsFile(f, p) == Entry(p, FALSE) \in f

\* Path::is_dir(): the root always is one, the empty path never
IsDir(f, p) == (p.abs /\ p.comps = <<>>) \/ Entry(p, TRUE) \in f

\* Path::exists()
Exists(f, p) == IsFile(f, p) \/ IsDir(f, p)

\* the directory a relative path with one component lies in is the working
\* directory, which is there although exists() of "" is false
DirPresent(f, p) == p = EmptyPath \/ IsDir(f, p)

\* std::fs::remove_file: removes a regular file, fails on a directory
remove_file(f, p) ==
    IF IsFile(f, p)
    THEN [res |-> Ok, fs |-> f \ {Entry(p, FALSE)}]
    ELSE [res |-> Err("Fail", "remove_file", NoTask), fs |-> f]

\* std::fs::create_dir_all: Ok on "", fails when a regular file is in the way,
\* else creates the directory and every missing directory above it
create_dir_all(f, p) ==
    LET anc == {Ancestors(p)[k] : k \in 1..Len(p.comps)}
    IN  IF p = EmptyPath THEN [res |-> Ok, fs |-> f]
        ELSE IF \E a \in anc : IsFile(f, a)
        THEN [res |-> Err("Fail", "create_dir_all", NoTask), fs |-> f]
        ELSE [res |-> Ok, fs |-> f \cup {Entry(a, TRUE) : a \in anc}]

\* slip: the source file of an upload is not looked for
RECURSIVE prepare_tasks_NoUploadCheck(_, _, _)
prepare_tasks_NoUploadCheck(tasks, j, f) ==
    IF j > Len(tasks) THEN [res |-> Ok, fs |-> f]
    ELSE LET filepath == tasks[j].key
         IN  IF tasks[j].action = "Download"
             THEN IF Exists(f, filepath)
                  THEN LET removed == remove_file(f, filepath)
                       IN  IF removed.res # Ok THEN removed
                           ELSE prepare_tasks_NoUploadCheck(tasks, j + 1, removed.fs)
                  ELSE IF Parent(filepath).some /\ ~Exists(f, Parent(filepath).val)
                  THEN LET created == create_dir_all(f, Parent(filepath).val)
                       IN  IF created.res # Ok THEN created
                           ELSE prepare_tasks_NoUploadCheck(tasks, j + 1, created.fs)
                  ELSE prepare_tasks_NoUploadCheck(tasks, j + 1, f)
             ELSE prepare_tasks_NoUploadCheck(tasks, j + 1, f)

\* the for loop of prepare_run from task j on, lines 124-148: the result and
\* the file system it leaves
RECURSIVE prepare_tasks(_, _, _)
prepare_tasks(tasks, j, f) ==
    IF j > Len(tasks) THEN [res |-> Ok, fs |-> f]
    ELSE LET filepath == tasks[j].key
         IN  IF tasks[j].action = "Download"
             THEN IF Exists(f, filepath)
                  THEN LET removed == remove_file(f, filepath)
                       IN  IF removed.res # Ok THEN removed
                           ELSE prepare_tasks(tasks, j + 1, removed.fs)
                  ELSE IF Parent(filepath).some /\ ~Exists(f, Parent(filepath).val)
                  THEN LET created == create_dir_all(f, Parent(filepath).val)
                       IN  IF created.res # Ok THEN created
                           ELSE prepare_tasks(tasks, j + 1, created.fs)
                  ELSE prepare_tasks(tasks, j + 1, f)
             ELSE IF ~IsFile(f, filepath)
                  THEN [res |-> Err("Fail", "prepare_run", j - 1), fs |-> f]
                  ELSE prepare_tasks(tasks, j + 1, f)

\* prepare_run on the file system f
prepare_run_fs(w, f) ==
    IF w.files_on_disk THEN prepare_tasks(w.tasks, 1, f) ELSE [res |-> Ok, fs |-> f]

\* File::create(key) of download(), line 136: needs the directory of the key
\* and no directory at the key itself
Creatable(f, key) ==
    /\ ~IsDir(f, key)
    /\ Parent(key).some
    /\ DirPresent(f, Parent(key).val)

\* ---- transfer_manager.rs ----

\* slip: the spawn loop starts at 1
TaskIndexRange_SkipFirst(n) == [k \in 1..(n - 1) |-> k]

\* for i in 0..workload_config.tasks.len()
TaskIndexRange(n) == [k \in 1..n |-> k - 1]

\* what the transfer engine can do to one download: fail a step, or deliver n bytes
DownloadEvents(size) ==
    {[t |-> "error"]} \cup {[t |-> "bytes", n |-> n] : n \in {m \in {size - 1, size, size + 1} : m >= 0}}

\* TransferManagerRunner::download: a failed step is an Err, and
\* assert_eq!(total_size, task_config.size) panics on a short or long body
download(task_config, ev) ==
    IF ev.t = "error" THEN "err"
    ELSE IF ev.n = task_config.size THEN "ok"
    ELSE "panic"

\* whether the transfer of a task is given the checksum of the workload: only
\* upload() builds a ChecksumStrategy from it (lines 186-193, 201); download()
\* and the bulk calls set a bucket, a key or prefix and a path, nothing else
CarriesChecksum(w, action, bulk) == ~bulk /\ action = "Upload" /\ w.checksum

\* TransferManagerRunner::upload: the engine's answer is the task's answer
upload(task_config, ev) == IF ev.t = "error" THEN "err" ELSE "ok"

UploadEvents == {[t |-> "error"], [t |-> "done"]}

\* TransferManagerRunner::run_task: the outcomes task i can end with
run_task(w, i) ==
    LET task_config == w.tasks[i + 1]
    IN  IF task_config.action = "Download"
        THEN {download(task_config, ev) : ev \in DownloadEvents(task_config.size)}
        ELSE {upload(task_config, ev) : ev \in UploadEvents}

\* slip: the tasks are detached instead of aborted
DropJoinSet_Detach(ts) == ts

\* drop(task_set): a dropped JoinSet aborts every task still running in it
DropJoinSet(ts) ==
    [p \in DOMAIN ts |->
        IF ts[p].st = "running" THEN [ts[p] EXCEPT !.st = "aborting"] ELSE ts[p]]

\* slip: the join loop ends after the first task it was handed
JoinSetEmpty_AfterFirst(ts, j) == j >= 1 \/ Len(ts) = 0

\* join_next() gives None once every spawned task has been handed out
JoinSetEmpty(ts, j) == Len(ts) - j = 0

\* slip: the outcomes are only looked at once every task has completed
JoinReady_WaitAll(ts, done, j) == Len(done) = Len(ts) /\ j < Len(done)

\* join_next() can return as soon as a completion it has not handed out exists
JoinReady(ts, done, j) == j < Len(done)

\* slip: the tasks are awaited in task index order
NextJoined_ByIndex(ts, done, j) ==
    CHOOSE p \in {done[m] : m \in (j + 1)..Len(done)} :
        \A m \in (j + 1)..Len(done) : ts[p].idx <= ts[done[m]].idx

\* the task join_next() hands out: the earliest completion not handed out yet
NextJoined(ts, done, j) == done[j + 1]

\* ---- main.rs ----

\* `?` on a Result: an Err leaves the function
Propagates(res) == res.t = "Err"

\* app_start.elapsed().as_secs_f64() >= workload.max_repeat_secs
BudgetExhausted(elapsed, max_repeat_secs) == elapsed >= max_repeat_secs

\* e.downcast_ref::<SkipBenchmarkError>()
IsSkip(e) == e.kind = "Skip"

\* slip: every error is treated as a failure
ExitStatus_NoSkip(res) == IF res.t = "Ok" THEN ExitOk ELSE ExitPanic

\* main(): the exit status for the result of execute()
ExitStatus(res) ==
    IF res.t = "Ok" THEN ExitOk
    ELSE IF IsSkip(res) THEN ExitSkip
    ELSE ExitPanic

\* slip: the guard is forgotten, its drop never runs
DropGuard_Leak(g) == g

\* Drop for TelemetryGuard, when execute's locals go out of scope
DropGuard(g) == IF g = "active" THEN "down" ELSE g

W == runner.val.workload

PerObjectMode(handle) == handle.transfer_path.t = "None"

\* ---- how execute() is left ----

\* execute returns res to main; its locals (the telemetry guard) are dropped
Return(res) ==
    /\ exec_result' = res
    /\ telemetry' = DropGuard(telemetry)
    /\ pc' = "main"
    /\ UNCHANGED exit_code

\* a panic unwinds through execute and main: locals are dropped, the process dies
Unwind ==
    /\ telemetry' = DropGuard(telemetry)
    /\ pc' = "exited"
    /\ exit_code' = ExitPanic
    /\ UNCHANGED exec_result

\* ---- execute(), main.rs 108-169 ----

\* lines 109-117: telemetry::init_tracing_subscriber().unwrap()
InitTelemetry ==
    /\ pc = "execute"
    /\ IF args.telemetry
       THEN \E ok \in BOOLEAN :
               IF ok THEN /\ telemetry' = "active"
                          /\ pc' = "new_runner"
                          /\ UNCHANGED <<exec_result, exit_code>>
               ELSE Unwind
       ELSE /\ pc' = "new_runner"
            /\ UNCHANGED <<telemetry, exec_result, exit_code>>
    /\ UNCHANGED <<stream, span_exporter, json_exporter, fs, rb_size, rb_pc, data, received, args, runner, run_num, now, app_start, run_start, run_secs,
                   spawn_todo, task_set, completed, joined, run_result,
                   lines, flushes, log>>

\* line 120 and new_runner, TransferManagerRunner::new
NewRunner ==
    /\ pc = "new_runner"
    /\ LET config == BenchmarkConfig_new(args)
       IN  IF Propagates(config)
           THEN Return(config) /\ UNCHANGED runner
           ELSE LET transfer_path ==
                        find_common_parent_dir(config.workload, config.disable_directory)
                IN  IF transfer_path.t = "Panic"
                    THEN Unwind /\ UNCHANGED runner
                    ELSE /\ runner' = Some(NewHandle(config, transfer_path))
                         /\ pc' = "start_loop"
                         /\ UNCHANGED <<telemetry, exec_result, exit_code>>
    /\ UNCHANGED <<stream, span_exporter, json_exporter, fs, rb_size, rb_pc, data, received, args, run_num, now, app_start, run_start, run_secs,
                   spawn_todo, task_set, completed, joined, run_result,
                   lines, flushes, log>>

\* slip: the time budget is tested before the first run too
StartLoop_CheckFirst ==
    /\ pc = "start_loop"
    /\ app_start' = now
    /\ IF 1 <= W.max_repeat_count /\ ~(0 >= W.max_repeat_secs)
       THEN /\ run_num' = 1
            /\ pc' = "prepare"
            /\ UNCHANGED <<telemetry, exec_result, exit_code>>
       ELSE Return(Ok) /\ UNCHANGED run_num
    /\ UNCHANGED <<stream, span_exporter, json_exporter, fs, rb_size, rb_pc, data, received, args, runner, now, run_start, run_secs,
                   spawn_todo, task_set, completed, joined, run_result,
                   lines, flushes, log>>

\* lines 128-129: app_start, and the first iteration of 1..=max_repeat_count
StartLoop ==
    /\ pc = "start_loop"
    /\ app_start' = now
    /\ IF 1 <= W.max_repeat_count
       THEN /\ run_num' = 1
            /\ pc' = "prepare"
            /\ UNCHANGED <<telemetry, exec_result, exit_code>>
       ELSE Return(Ok) /\ UNCHANGED run_num
    /\ UNCHANGED <<stream, span_exporter, json_exporter, fs, rb_size, rb_pc, data, received, args, runner, now, run_start, run_secs,
                   spawn_todo, task_set, completed, joined, run_result,
                   lines, flushes, log>>

\* line 130: prepare_run(workload)?
PrepareRun ==
    /\ pc = "prepare"
    /\ \E res \in prepare_run(W) :
          IF Propagates(res)
          THEN Return(res) /\ UNCHANGED log
          ELSE /\ log' = <<"prepare">>
               /\ pc' = "timer"
               /\ UNCHANGED <<telemetry, exec_result, exit_code>>
    /\ UNCHANGED <<stream, span_exporter, json_exporter, fs, rb_size, rb_pc, data, received, args, runner, run_num, now, app_start, run_start, run_secs,
                   spawn_todo, task_set, completed, joined, run_result,
                   lines, flushes>>

\* lines 132-133: run_start = Instant::now()
StartTimer ==
    /\ pc = "timer"
    /\ run_start' = now
    /\ log' = Append(log, "timer_start")
    /\ pc' = "run"
    /\ UNCHANGED <<stream, span_exporter, json_exporter, fs, rb_size, rb_pc, data, received, args, telemetry, runner, run_num, now, app_start, run_secs,
                   spawn_todo, task_set, completed, joined, run_result,
                   exec_result, exit_code, lines, flushes>>

\* ---- TransferManagerRunner::run, transfer_manager.rs 216-259 ----

\* lines 219-245: enter run(); directory mode starts its one bulk call,
\* per-object mode creates the JoinSet and starts the spawn loop
RunBegin ==
    /\ pc = "run"
    /\ received' = <<>>
    /\ task_set' = <<>>
    /\ completed' = <<>>
    /\ joined' = 0
    /\ IF runner.val.transfer_path.t = "Some"
       THEN /\ spawn_todo' = <<>>
            /\ IF W.tasks[1].action = "Download"
               THEN pc' = "download_objects" /\ run_result' = Pending
               ELSE IF W.checksum
               THEN /\ run_result' = Err("Skip", "upload_objects", NoTask)
                    /\ pc' = "run_done"
               ELSE pc' = "upload_objects" /\ run_result' = Pending
       ELSE /\ spawn_todo' = TaskIndexRange(Len(W.tasks))
            /\ run_result' = Pending
            /\ pc' = IF Len(W.tasks) = 0 THEN "join" ELSE "spawn"
    /\ UNCHANGED <<stream, span_exporter, json_exporter, fs, rb_size, rb_pc, data, args, telemetry, runner, run_num, now, app_start, run_start,
                   run_secs, exec_result, exit_code, lines, flushes, log>>

\* what the engine can have written for the objects of a bulk download: for
\* each task the byte counts a download of its object can deliver
download_objects(tasks) ==
    {r \in [DOMAIN tasks -> UNION {{ev.n : ev \in {e \in DownloadEvents(tasks[i].size) : e.t = "bytes"}} :
                                      i \in DOMAIN tasks}] :
        \A i \in DOMAIN tasks : [t |-> "bytes", n |-> r[i]] \in DownloadEvents(tasks[i].size)}

\* lines 91-120: download_objects()/upload_objects() sent and joined; the
\* answer of the engine is the answer of the run, the bytes are not counted
DirectoryTransfer ==
    /\ pc \in {"download_objects", "upload_objects"}
    /\ \E res \in {Ok, Err("Fail", pc, NoTask)} :
          /\ run_result' = res
          /\ IF pc = "download_objects" /\ res = Ok
             THEN received' \in download_objects(W.tasks)
             ELSE received' = <<>>
    /\ pc' = "run_done"
    /\ UNCHANGED <<stream, span_exporter, json_exporter, fs, rb_size, rb_pc, data, args, telemetry, runner, run_num, now, app_start, run_start,
                   run_secs, spawn_todo, task_set, completed, joined,
                   exec_result, exit_code, lines, flushes, log>>

\* slip: the spawned task is given the payload itself, not a handle on it
SpawnTask_TakePayload ==
    /\ pc = "spawn"
    /\ spawn_todo # <<>>
    /\ task_set' = Append(task_set, [idx |-> Head(spawn_todo), st |-> "running"])
    /\ spawn_todo' = Tail(spawn_todo)
    /\ pc' = IF Tail(spawn_todo) = <<>> THEN "join" ELSE "spawn"
    /\ runner' = Some([runner.val EXCEPT !.random_data_for_upload = 0])
    /\ UNCHANGED <<stream, span_exporter, json_exporter, fs, rb_size, rb_pc, data, received, args, telemetry, run_num, now, app_start, run_start,
                   run_secs, completed, joined, run_result, exec_result,
                   exit_code, lines, flushes, log>>

\* lines 247-250: one turn of the spawn loop
SpawnTask ==
    /\ pc = "spawn"
    /\ spawn_todo # <<>>
    /\ task_set' = Append(task_set, [idx |-> Head(spawn_todo), st |-> "running"])
    /\ spawn_todo' = Tail(spawn_todo)
    /\ pc' = IF Tail(spawn_todo) = <<>> THEN "join" ELSE "spawn"
    /\ UNCHANGED <<stream, span_exporter, json_exporter, fs, rb_size, rb_pc, data, received, args, telemetry, runner, run_num, now, app_start, run_start,
                   run_secs, completed, joined, run_result, exec_result,
                   exit_code, lines, flushes, log>>

\* run_task (lines 75-90) of a spawned task runs to its end
TaskComplete ==
    /\ exit_code = NotExited
    /\ \E p \in DOMAIN task_set :
          /\ task_set[p].st = "running"
          /\ \E outcome \in run_task(W, task_set[p].idx) :
                task_set' = [task_set EXCEPT ![p].st = outcome]
          /\ completed' = Append(completed, p)
    /\ UNCHANGED <<stream, span_exporter, json_exporter, fs, rb_size, rb_pc, data, received, args, pc, telemetry, runner, run_num, now, app_start, run_start,
                   run_secs, spawn_todo, joined, run_result, exec_result,
                   exit_code, lines, flushes, log>>

\* a task of a dropped JoinSet: cancelled at its next await point, unless the
\* poll in progress ends it first (nobody is left to see the outcome)
TaskAborted ==
    /\ exit_code = NotExited
    /\ \E p \in DOMAIN task_set :
          /\ task_set[p].st = "aborting"
          /\ \E outcome \in run_task(W, task_set[p].idx) \cup {"cancelled"} :
                task_set' = [task_set EXCEPT ![p].st = outcome]
    /\ UNCHANGED <<stream, span_exporter, json_exporter, fs, rb_size, rb_pc, data, received, args, pc, telemetry, runner, run_num, now, app_start, run_start,
                   run_secs, spawn_todo, completed, joined, run_result, exec_result,
                   exit_code, lines, flushes, log>>

\* lines 252-258: one turn of `while let Some(..) = task_set.join_next().await`
JoinNext ==
    /\ pc = "join"
    /\ IF JoinSetEmpty(task_set, joined)
       THEN /\ run_result' = Ok
            /\ task_set' = DropJoinSet(task_set)
            /\ pc' = "run_done"
            /\ UNCHANGED joined
       ELSE /\ JoinReady(task_set, completed, joined)
            /\ LET p == NextJoined(task_set, completed, joined)
                   t == task_set[p]
               IN  /\ joined' = joined + 1
                   /\ IF t.st = "ok"
                      THEN UNCHANGED <<task_set, run_result, pc>>
                      ELSE /\ run_result' = IF t.st = "err"
                                            THEN Err("Fail", "task", t.idx)
                                            ELSE Panicked("task", t.idx)
                           /\ task_set' = DropJoinSet(task_set)
                           /\ pc' = "run_done"
    /\ UNCHANGED <<stream, span_exporter, json_exporter, fs, rb_size, rb_pc, data, received, args, telemetry, runner, run_num, now, app_start, run_start,
                   run_secs, spawn_todo, completed, exec_result, exit_code,
                   lines, flushes, log>>

\* slip: the Err of run() is dropped instead of propagated with `?`
AfterRun_Swallow ==
    /\ pc = "run_done"
    /\ IF run_result.t = "Panic"
       THEN Unwind /\ UNCHANGED log
       ELSE /\ log' = Append(log, "run")
            /\ pc' = "measure"
            /\ UNCHANGED <<telemetry, exec_result, exit_code>>
    /\ UNCHANGED <<stream, span_exporter, json_exporter, fs, rb_size, rb_pc, data, received, args, runner, run_num, now, app_start, run_start, run_secs,
                   spawn_todo, task_set, completed, joined, run_result,
                   lines, flushes>>

\* main.rs lines 135-142: `runner.run().await?`
AfterRun ==
    /\ pc = "run_done"
    /\ IF run_result.t = "Panic"
       THEN Unwind /\ UNCHANGED log
       ELSE IF Propagates(run_result)
       THEN Return(run_result) /\ UNCHANGED log
       ELSE /\ log' = Append(log, "run")
            /\ pc' = "measure"
            /\ UNCHANGED <<telemetry, exec_result, exit_code>>
    /\ UNCHANGED <<stream, span_exporter, json_exporter, fs, rb_size, rb_pc, data, received, args, runner, run_num, now, app_start, run_start, run_secs,
                   spawn_todo, task_set, completed, joined, run_result,
                   lines, flushes>>

\* line 144: run_secs = run_start.elapsed(); a run takes time on the
\* high-resolution clock, so the reading has advanced since run_start
\* (unless the model's clock has reached MaxTime and stopped following)
Measure ==
    /\ pc = "measure"
    /\ now > run_start \/ now = MaxTime
    /\ run_secs' = now - run_start
    /\ log' = Append(log, "timer_read")
    /\ pc' = "flush"
    /\ UNCHANGED <<stream, span_exporter, json_exporter, fs, rb_size, rb_pc, data, received, args, telemetry, runner, run_num, now, app_start, run_start,
                   spawn_todo, task_set, completed, joined, run_result,
                   exec_result, exit_code, lines, flushes>>

\* slip: a flush that fails ends execute() with its error
Flush_Fatal ==
    /\ pc = "flush"
    /\ IF telemetry = "active"
       THEN \E ok \in BOOLEAN :
               /\ flushes' = Append(flushes, [run |-> run_num, ok |-> ok])
               /\ log' = Append(log, "flush")
               /\ IF ok THEN pc' = "print" /\ UNCHANGED <<telemetry, exec_result, exit_code>>
                  ELSE Return(Err("Fail", "flush", NoTask))
       ELSE /\ pc' = "print"
            /\ UNCHANGED <<flushes, log, telemetry, exec_result, exit_code>>
    /\ UNCHANGED <<stream, span_exporter, json_exporter, fs, rb_size, rb_pc, data, received, args, runner, run_num, now, app_start, run_start,
                   run_secs, spawn_todo, task_set, completed, joined, run_result, lines>>

\* lines 146-153: telemetry is flushed to the trace file of the run; the flush
\* succeeds or fails, main looks at neither (telemetry.rs 96-106 reports a
\* failure on stderr and returns)
Flush ==
    /\ pc = "flush"
    /\ IF telemetry = "active"
       THEN \E ok \in BOOLEAN :
               /\ flushes' = Append(flushes, [run |-> run_num, ok |-> ok])
               /\ log' = Append(log, "flush")
       ELSE UNCHANGED <<flushes, log>>
    /\ pc' = "print"
    /\ UNCHANGED <<stream, span_exporter, json_exporter, fs, rb_size, rb_pc, data, received, args, telemetry, runner, run_num, now, app_start, run_start,
                   run_secs, spawn_todo, task_set, completed, joined, run_result,
                   exec_result, exit_code, lines>>

\* slip: the loop index is printed 0-based
PrintResult_ZeroBased ==
    /\ pc = "print"
    /\ lines' = Append(lines, run_num - 1)
    /\ log' = Append(log, "print")
    /\ pc' = "check"
    /\ UNCHANGED <<stream, span_exporter, json_exporter, fs, rb_size, rb_pc, data, received, args, telemetry, runner, run_num, now, app_start, run_start,
                   run_secs, spawn_todo, task_set, completed, joined, run_result,
                   exec_result, exit_code, flushes>>

\* lines 155-160: eprintln!("Run:{} Secs:{:.6} Gb/s:{:.6}", run_num, ..)
PrintResult ==
    /\ pc = "print"
    /\ lines' = Append(lines, run_num)
    /\ log' = Append(log, "print")
    /\ pc' = "check"
    /\ UNCHANGED <<stream, span_exporter, json_exporter, fs, rb_size, rb_pc, data, received, args, telemetry, runner, run_num, now, app_start, run_start,
                   run_secs, spawn_todo, task_set, completed, joined, run_result,
                   exec_result, exit_code, flushes>>

\* lines 162-166 and the loop header: break, next iteration, or end of range
CheckBudget ==
    /\ pc = "check"
    /\ log' = Append(log, "check")
    /\ IF BudgetExhausted(now - app_start, W.max_repeat_secs)
       THEN Return(Ok) /\ UNCHANGED run_num
       ELSE IF run_num < W.max_repeat_count
       THEN /\ run_num' = run_num + 1
            /\ pc' = "prepare"
            /\ UNCHANGED <<telemetry, exec_result, exit_code>>
       ELSE Return(Ok) /\ UNCHANGED run_num
    /\ UNCHANGED <<stream, span_exporter, json_exporter, fs, rb_size, rb_pc, data, received, args, runner, now, app_start, run_start, run_secs,
                   spawn_todo, task_set, completed, joined, run_result,
                   lines, flushes>>

\* main.rs lines 89-105: the process ends with the status for execute's result
Main ==
    /\ pc = "main"
    /\ exit_code' = ExitStatus(exec_result)
    /\ pc' = "exited"
    /\ UNCHANGED <<stream, span_exporter, json_exporter, fs, rb_size, rb_pc, data, received, args, telemetry, runner, run_num, now, app_start, run_start,
                   run_secs, spawn_todo, task_set, completed, joined, run_result,
                   exec_result, lines, flushes, log>>

\* main.rs line 102: `upload_otlp(args).await?`, an Err is returned from main
UploadOtlp ==
    /\ pc = "upload_otlp"
    /\ \E res \in {Ok, Err("Fail", "upload_otlp", NoTask)} :
          exit_code' = IF Propagates(res) THEN ExitError ELSE ExitOk
    /\ pc' = "exited"
    /\ UNCHANGED <<stream, span_exporter, json_exporter, fs, rb_size, rb_pc, data, received, args, telemetry, runner, run_num, now, app_start, run_start,
                   run_secs, spawn_todo, task_set, completed, joined, run_result,
                   exec_result, lines, flushes, log>>

\* pc values of the run loop, between app_start and the return of execute
LoopPcs == {"prepare", "timer", "run", "download_objects", "upload_objects",
            "spawn", "join", "run_done", "measure", "flush", "print", "check"}

\* the monotonic clock advances; the model follows it while the loop reads it
Tick ==
    /\ pc \in LoopPcs
    /\ now < MaxTime
    /\ now' = now + 1
    /\ UNCHANGED <<stream, span_exporter, json_exporter, fs, rb_size, rb_pc, data, received, args, pc, telemetry, runner, run_num, app_start, run_start,
                   run_secs, spawn_todo, task_set, completed, joined, run_result,
                   exec_result, exit_code, lines, flushes, log>>

Next ==
    \/ InitTelemetry
    \/ NewRunner
    \/ StartLoop
    \/ PrepareRun
    \/ StartTimer
    \/ RunBegin
    \/ DirectoryTransfer
    \/ SpawnTask
    \/ TaskComplete
    \/ TaskAborted
    \/ JoinNext
    \/ AfterRun
    \/ Measure
    \/ Flush
    \/ PrintResult
    \/ CheckBudget
    \/ Main
    \/ UploadOtlp
    \/ Tick

Spec == Init /\ [][Next]_vars

\* the join loop is fair: a join_next() that can return does return
LiveSpec == Spec /\ WF_vars(JoinNext)

\* ---- the transfer strategy of a workload, TransferManagerRunner::new ----

\* the keys drawn for the tasks: the empty key, a bare name, keys below a/,
\* keys in directories of their own, and an absolute key
SelKeys ==
    { Path(FALSE, <<>>), Path(FALSE, <<"k">>),
      Path(FALSE, <<"a", "b", "x">>), Path(FALSE, <<"a", "b", "y">>),
      Path(FALSE, <<"a", "c", "z">>),
      Path(FALSE, <<"x", "1">>), Path(FALSE, <<"y", "2">>), Path(TRUE, <<"x", "1">>) }

SelTaskLists ==
    UNION {[1..n -> {Task(a, k, 1) : a \in {"Download", "Upload"}, k \in SelKeys}] :
              n \in 0..MaxSelTasks}

SelInputs ==
    [command : {"RunBenchmark"}, telemetry : {FALSE}, disable_directory : BOOLEAN, target_throughput : {Throughput}, file : {"ok"},
     json : {Workload(SupportedVersion, fod, FALSE, 1, 1, tl) :
                fod \in BOOLEAN, tl \in SelTaskLists}]

\* execute() about to build the runner of a workload file that parsed
SelInit ==
    /\ args \in SelInputs
    /\ pc = "new_runner"
    /\ telemetry = "none"
    /\ runner = None
    /\ run_num = 0
    /\ now = 0
    /\ app_start = 0
    /\ run_start = 0
    /\ run_secs = 0
    /\ spawn_todo = <<>>
    /\ task_set = <<>>
    /\ completed = <<>>
    /\ joined = 0
    /\ run_result = Pending
    /\ exec_result = Pending
    /\ exit_code = NotExited
    /\ lines = <<>>
    /\ flushes = <<>>
    /\ log = <<>>
    /\ received = <<>>
    /\ stream = {}
    /\ span_exporter = SpanExporter_new({})
    /\ json_exporter = JsonSpanExporter_new
    /\ fs = {}
    /\ rb_size = 0
    /\ rb_pc = "idle"
    /\ data = <<>>

SelNext == NewRunner

SelSpec == SelInit /\ [][SelNext]_vars

\* ---- the concurrency of the transfer manager ----

\* the locals of execute() and of run() before execute() has used them
ExecuteAtStart ==
    /\ telemetry = "none"
    /\ runner = None
    /\ run_num = 0
    /\ now = 0
    /\ app_start = 0
    /\ run_start = 0
    /\ run_secs = 0
    /\ spawn_todo = <<>>
    /\ task_set = <<>>
    /\ completed = <<>>
    /\ joined = 0
    /\ run_result = Pending
    /\ exec_result = Pending
    /\ exit_code = NotExited
    /\ lines = <<>>
    /\ flushes = <<>>
    /\ log = <<>>
    /\ received = <<>>

\* runs of a workload without tasks, for every target throughput from 0.0 to
\* MaxThroughput tenths of a gigabit per second
ConcInputs ==
    [command : {"RunBenchmark"}, telemetry : {FALSE}, disable_directory : {FALSE},
     target_throughput : 0..MaxThroughput, file : {"ok"},
     json : {Workload(SupportedVersion, FALSE, FALSE, 1, 1, <<>>)}]

\* execute() about to build the runner
ConcInit ==
    /\ args \in ConcInputs
    /\ pc = "new_runner"
    /\ ExecuteAtStart
    /\ stream = {}
    /\ span_exporter = SpanExporter_new({})
    /\ json_exporter = JsonSpanExporter_new
    /\ fs = {}
    /\ rb_size = 0
    /\ rb_pc = "idle"
    /\ data = <<>>

ConcNext == NewRunner

ConcSpec == ConcInit /\ [][ConcNext]_vars

\* ---- new_random_bytes, transfer_manager.rs 302-332 ----

\* the values of a byte, as far as two bytes can differ
Bytes == {0, 1}

\* slip: the whole buffer is copied again, whatever is left to fill
ExtendLen_Whole(len, size) == len

\* slip: one byte is copied per turn
ExtendLen_One(len, size) == Min(1, size - len)

\* line 329: min(data.len(), size - data.len())
ExtendLen(len, size) == Min(len, size - len)

RandTaskLists ==
    UNION {[1..n -> {Task(a, Path(FALSE, <<"k">>), sz) :
                        a \in {"Download", "Upload"}, sz \in 0..MaxSize}] : n \in 0..2}

RandInputs ==
    [command : {"RunBenchmark"}, telemetry : {FALSE}, disable_directory : {FALSE}, target_throughput : {Throughput}, file : {"ok"},
     json : {Workload(SupportedVersion, fod, FALSE, 1, 1, tl) :
                fod \in BOOLEAN, tl \in RandTaskLists}]

\* TransferManagerRunner::new calling new_random_bytes(upload_data_size)
RandInit ==
    /\ args \in RandInputs
    /\ pc = "new_runner"
    /\ telemetry = "none"
    /\ runner = None
    /\ run_num = 0
    /\ now = 0
    /\ app_start = 0
    /\ run_start = 0
    /\ run_secs = 0
    /\ spawn_todo = <<>>
    /\ task_set = <<>>
    /\ completed = <<>>
    /\ joined = 0
    /\ run_result = Pending
    /\ exec_result = Pending
    /\ exit_code = NotExited
    /\ lines = <<>>
    /\ flushes = <<>>
    /\ log = <<>>
    /\ received = <<>>
    /\ stream = {}
    /\ span_exporter = SpanExporter_new({})
    /\ json_exporter = JsonSpanExporter_new
    /\ fs = {}
    /\ rb_size = upload_data_size(args.json)
    /\ rb_pc = "start"
    /\ data = <<>>

\* lines 313-324: rand_len bytes are reserved, exposed and filled with randomness
FillRandom ==
    /\ rb_pc = "start"
    /\ LET rand_len == Min(RandPrefix, rb_size)
       IN  data' \in [1..rand_len -> Bytes]
    /\ rb_pc' = "copy"
    /\ UNCHANGED <<stream, span_exporter, json_exporter, fs, rb_size, received, args, pc, telemetry, runner, run_num, now, app_start,
                   run_start, run_secs, spawn_todo, task_set, completed, joined,
                   run_result, exec_result, exit_code, lines, flushes, log>>

\* slip: the copy is taken from the end of the buffer
ExtendFromWithin_Tail ==
    /\ rb_pc = "copy"
    /\ Len(data) < rb_size
    /\ LET extend_len == ExtendLen(Len(data), rb_size)
       IN  data' = data \o SubSeq(data, Len(data) - extend_len + 1, Len(data))
    /\ UNCHANGED <<stream, span_exporter, json_exporter, fs, rb_size, rb_pc, received, args, pc, telemetry, runner, run_num, now,
                   app_start, run_start, run_secs, spawn_todo, task_set, completed, joined,
                   run_result, exec_result, exit_code, lines, flushes, log>>

\* lines 327-330: one turn of the copy loop
ExtendFromWithin ==
    /\ rb_pc = "copy"
    /\ Len(data) < rb_size
    /\ LET extend_len == ExtendLen(Len(data), rb_size)
       IN  data' = data \o SubSeq(data, 1, extend_len)
    /\ UNCHANGED <<stream, span_exporter, json_exporter, fs, rb_size, rb_pc, received, args, pc, telemetry, runner, run_num, now,
                   app_start, run_start, run_secs, spawn_todo, task_set, completed, joined,
                   run_result, exec_result, exit_code, lines, flushes, log>>

\* lines 327, 331: the loop ends, the buffer is returned
ReturnBytes ==
    /\ rb_pc = "copy"
    /\ ~(Len(data) < rb_size)
    /\ rb_pc' = "done"
    /\ UNCHANGED <<stream, span_exporter, json_exporter, fs, rb_size, data, received, args, pc, telemetry, runner, run_num, now,
                   app_start, run_start, run_secs, spawn_todo, task_set, completed, joined,
                   run_result, exec_result, exit_code, lines, flushes, log>>

\* Bytes::slice(0..end): a new handle on the same bytes; panics past the end
Slice(d, end) ==
    IF end <= Len(d) THEN [ok |-> TRUE, val |-> SubSeq(d, 1, end)]
    ELSE [ok |-> FALSE, val |-> <<>>]

\* upload, lines 177-184: an upload task makes the body it sends, from the file
\* at its key or from a slice of the payload; the tasks of a run do so in any order
UploadStream ==
    /\ rb_pc = "done"
    /\ \E i \in DOMAIN args.json.tasks :
          LET task_config == args.json.tasks[i]
              body == IF args.json.files_on_disk
                      THEN [ok |-> TRUE, val |-> <<>>]
                      ELSE Slice(data, task_config.size)
          IN  /\ task_config.action = "Upload"
              /\ \A s \in stream : s.idx # i
              /\ stream' = stream \cup
                    {[idx |-> i,
                      src |-> IF args.json.files_on_disk THEN "path" ELSE "bytes",
                      ok |-> body.ok, val |-> body.val]}
    /\ UNCHANGED <<span_exporter, json_exporter, fs, rb_size, rb_pc, data, received, args, pc,
                   telemetry, runner, run_num, now, app_start, run_start, run_secs,
                   spawn_todo, task_set, completed, joined, run_result, exec_result,
                   exit_code, lines, flushes, log>>

RandNext ==
    \/ FillRandom
    \/ ExtendFromWithin
    \/ ReturnBytes
    \/ UploadStream

\* the function runs on: a step it can take is taken
RandSpec == RandInit /\ [][RandNext]_vars /\ WF_vars(RandNext)

\* ---- the queueing SpanExporter, telemetry/trace/exporter.rs ----

\* the paths flush_to_file is called with
TracePaths == {"t1", "t2"}

\* a trace file: its path, the batches serialised into it, and the call of
\* flush_to_file that created it (0: the file was there before)
TraceFile(path, batches, by) == [path |-> path, batches |-> batches, by |-> by]

FileExists(files, path) == \E f \in files : f.path = path

\* the exporter and its clones are new; any of the trace files may exist already
ExpInit ==
    /\ args \in {a \in Inputs : a.telemetry /\ a.file = "ok" /\ a.json.tasks = <<>>
                                 /\ a.json.max_repeat_count = 1 /\ a.json.max_repeat_secs = 1}
    /\ pc = "run"
    /\ ExecuteAtStart
    /\ stream = {}
    /\ span_exporter \in {SpanExporter_new({TraceFile(p, <<>>, 0) : p \in old}) :
                             old \in SUBSET TracePaths}
    /\ json_exporter = JsonSpanExporter_new
    /\ fs = {}
    /\ rb_size = 0
    /\ rb_pc = "idle"
    /\ data = <<>>

ExpUnchanged ==
    UNCHANGED <<stream, json_exporter, fs, rb_size, rb_pc, data, received, args, pc,
                telemetry, runner, run_num, now, app_start, run_start, run_secs,
                spawn_todo, task_set, completed, joined, run_result, exec_result,
                exit_code, lines, flushes, log>>

\* export, lines 40-49: under the lock the batch is pushed on the queue; the
\* result is Ok. The batches are numbered in the order they are exported.
Export ==
    /\ span_exporter.exported < MaxBatches
    /\ span_exporter' =
          [span_exporter EXCEPT
              !.exported = @ + 1,
              !.queued_batches = Append(@, span_exporter.exported + 1),
              !.export_result = Some(Ok)]
    /\ ExpUnchanged

\* slip: the queue is copied, not taken
FlushTake_Copy ==
    /\ span_exporter.calls < MaxFlushCalls
    /\ \E c \in Clones, path \in TracePaths :
          /\ span_exporter.flush[c].pc = "idle"
          /\ span_exporter' =
                [span_exporter EXCEPT
                    !.calls = @ + 1,
                    !.flush[c] = [pc |-> "drained", id |-> span_exporter.calls + 1,
                                  path |-> path, taken |-> span_exporter.queued_batches]]
    /\ ExpUnchanged

\* slip: the file is opened first, and a call that cannot create it returns
\* before it took anything off the queue
FlushTake_OpenFirst ==
    /\ span_exporter.calls < MaxFlushCalls
    /\ \E c \in Clones, path \in TracePaths :
          /\ span_exporter.flush[c].pc = "idle"
          /\ span_exporter' =
                IF FileExists(span_exporter.files, path)
                THEN [span_exporter EXCEPT
                        !.calls = @ + 1,
                        !.returned = Append(@, [id |-> span_exporter.calls + 1, path |-> path,
                                                at_start |-> span_exporter.queued_batches,
                                                taken |-> <<>>, res |-> "Err"])]
                ELSE [span_exporter EXCEPT
                        !.calls = @ + 1,
                        !.queued_batches = <<>>,
                        !.flush[c] = [pc |-> "drained", id |-> span_exporter.calls + 1,
                                      path |-> path, taken |-> span_exporter.queued_batches]]
    /\ ExpUnchanged

\* flush_to_file, lines 70-79: a clone of the exporter is asked to flush to
\* path; under the lock it takes the whole queue and leaves an empty one
FlushTake ==
    /\ span_exporter.calls < MaxFlushCalls
    /\ \E c \in Clones, path \in TracePaths :
          /\ span_exporter.flush[c].pc = "idle"
          /\ span_exporter' =
                [span_exporter EXCEPT
                    !.calls = @ + 1,
                    !.queued_batches = <<>>,
                    !.flush[c] = [pc |-> "drained", id |-> span_exporter.calls + 1,
                                  path |-> path, taken |-> span_exporter.queued_batches]]
    /\ ExpUnchanged

\* flush_to_file, lines 81-89: File::create_new fails when the file exists;
\* else the batches taken are serialised into the new file, which can fail
\* after any number of them; the call returns and the batches are dropped
FlushWrite ==
    /\ \E c \in Clones :
          LET fl == span_exporter.flush[c]
              Returned(res) ==
                  Append(span_exporter.returned,
                         [id |-> fl.id, path |-> fl.path, at_start |-> fl.taken,
                          taken |-> fl.taken, res |-> res])
              Idle == [pc |-> "idle", id |-> 0, path |-> "", taken |-> <<>>]
          IN  /\ fl.pc = "drained"
              /\ IF FileExists(span_exporter.files, fl.path)
                 THEN span_exporter' =
                         [span_exporter EXCEPT !.flush[c] = Idle,
                                               !.returned = Returned("Err")]
                 ELSE \E k \in 0..Len(fl.taken), io_ok \in BOOLEAN :
                         /\ io_ok => k = Len(fl.taken)
                         /\ span_exporter' =
                               [span_exporter EXCEPT
                                   !.flush[c] = Idle,
                                   !.files = @ \cup {TraceFile(fl.path, SubSeq(fl.taken, 1, k), fl.id)},
                                   !.returned = Returned(IF io_ok THEN "Ok" ELSE "Err")]
    /\ ExpUnchanged

ExpNext ==
    \/ Export
    \/ FlushTake
    \/ FlushWrite

ExpSpec == ExpInit /\ [][ExpNext]_vars

\* ---- the JsonSpanExporter, telemetry/trace_exporter.rs ----

\* the batches handed to export: sequences of spans
JsonBatches == {<<>>, <<1>>, <<1, 2>>}

\* SerdeSpanData::new, lines 73-80: the struct has no field, the spans and the
\* resource it is given are not kept
SerdeSpanData_new(otel_spans) == <<>>

\* write_spans_as_json, lines 20-26: the JSON text of the struct, as the spans in it
Json(serde_spans) == [t |-> "json", spans |-> serde_spans]

Newline == [t |-> "nl", spans |-> <<>>]

ExportOk == [t |-> "Ok", msg |-> ""]

ExportErr(msg) == [t |-> "Err", msg |-> msg]

\* the exporter is new, nothing was written
JsonInit ==
    /\ args \in {a \in Inputs : a.telemetry /\ a.file = "ok" /\ a.json.tasks = <<>>
                                 /\ a.json.max_repeat_count = 1 /\ a.json.max_repeat_secs = 1}
    /\ pc = "run"
    /\ ExecuteAtStart
    /\ stream = {}
    /\ span_exporter = SpanExporter_new({})
    /\ json_exporter = JsonSpanExporter_new
    /\ fs = {}
    /\ rb_size = 0
    /\ rb_pc = "idle"
    /\ data = <<>>

JsonUnchanged ==
    UNCHANGED <<stream, span_exporter, fs, rb_size, rb_pc, data, received, args, pc,
                telemetry, runner, run_num, now, app_start, run_start, run_secs,
                spawn_todo, task_set, completed, joined, run_result, exec_result,
                exit_code, lines, flushes, log>>

\* export, lines 29-49: with a writer, the JSON of the converted spans is
\* written and, when that went well, a newline; the first write that fails
\* ends the export with its error. Without a writer nothing is written.
JsonExport ==
    /\ json_exporter.exports < MaxExports
    /\ \E otel_spans \in JsonBatches, io \in {"ok", "json_fails", "newline_fails"} :
          LET serde_spans == SerdeSpanData_new(otel_spans)
              called == [json_exporter EXCEPT !.exports = @ + 1, !.batch = otel_spans]
          IN  IF json_exporter.writer
              THEN json_exporter' =
                     IF io = "json_fails"
                     THEN [called EXCEPT !.result = Some(ExportErr("io"))]
                     ELSE IF io = "newline_fails"
                     THEN [called EXCEPT !.out = Append(@, Json(serde_spans)),
                                         !.result = Some(ExportErr("io"))]
                     ELSE [called EXCEPT !.out = @ \o <<Json(serde_spans), Newline>>,
                                         !.result = Some(ExportOk)]
              ELSE /\ io = "ok"
                   /\ json_exporter' =
                         [called EXCEPT !.result = Some(ExportErr("exporter is shut down"))]
    /\ JsonUnchanged

\* shutdown, lines 51-53: self.writer.take()
JsonShutdown ==
    /\ json_exporter.shutdowns < MaxShutdowns
    /\ json_exporter' = [json_exporter EXCEPT !.writer = FALSE, !.shutdowns = @ + 1]
    /\ JsonUnchanged

JsonNext ==
    \/ JsonExport
    \/ JsonShutdown

JsonSpec == JsonInit /\ [][JsonNext]_vars

\* ---- prepare_run and the files of a workload on disk ----

PrepKeys ==
    { Path(FALSE, <<"a", "x">>), Path(FALSE, <<"a", "y">>),
      Path(FALSE, <<"a">>), Path(FALSE, <<"k">>) }

PrepTaskLists ==
    UNION {[1..n -> {Task(a, k, 1) : a \in {"Download", "Upload"}, k \in PrepKeys}] :
              n \in 1..MaxPrepTasks}

\* on-disk workloads whose runner can be built (no panic in the selector)
PrepInputs ==
    {a \in [command : {"RunBenchmark"}, telemetry : {FALSE}, disable_directory : BOOLEAN, target_throughput : {Throughput},
            file : {"ok"},
            json : {Workload(SupportedVersion, TRUE, FALSE, MaxRepeatCount, 1, tl) :
                       tl \in PrepTaskLists}] :
        find_common_parent_dir(a.json, a.disable_directory).t # "Panic"}

\* what can be on disk when the benchmark starts: any files and directories
\* at the keys and above them, each below a directory
InitialFs ==
    {f \in SUBSET {Entry(p, dir) : p \in PrepKeys, dir \in BOOLEAN} :
        /\ \A e \in f : Entry(e.path, ~e.dir) \notin f
        /\ \A e \in f : DirPresent(f, Parent(e.path).val)}

\* execute() entering its loop: the runner is built, run 1 is to be prepared
PrepInit ==
    /\ args \in PrepInputs
    /\ pc = "prepare"
    /\ telemetry = "none"
    /\ runner = Some(NewHandle(BenchmarkConfig_new(args),
                             find_common_parent_dir(args.json, args.disable_directory)))
    /\ run_num = 1
    /\ now = 0
    /\ app_start = 0
    /\ run_start = 0
    /\ run_secs = 0
    /\ spawn_todo = <<>>
    /\ task_set = <<>>
    /\ completed = <<>>
    /\ joined = 0
    /\ run_result = Pending
    /\ exec_result = Pending
    /\ exit_code = NotExited
    /\ lines = <<>>
    /\ flushes = <<>>
    /\ log = <<>>
    /\ received = <<>>
    /\ stream = {}
    /\ span_exporter = SpanExporter_new({})
    /\ json_exporter = JsonSpanExporter_new
    /\ fs \in InitialFs
    /\ rb_size = 0
    /\ rb_pc = "idle"
    /\ data = <<>>

\* main.rs line 130: prepare_run(workload)? on the files on disk
PrepareRunOnDisk ==
    /\ pc = "prepare"
    /\ LET prepared == prepare_run_fs(W, fs)
       IN  /\ fs' = prepared.fs
           /\ IF Propagates(prepared.res)
              THEN Return(prepared.res) /\ UNCHANGED log
              ELSE /\ log' = <<"prepare">>
                   /\ pc' = "timer"
                   /\ UNCHANGED <<telemetry, exec_result, exit_code>>
    /\ UNCHANGED <<stream, span_exporter, json_exporter, rb_size, rb_pc, data, received, args, runner, run_num, now, app_start, run_start,
                   run_secs, spawn_todo, task_set, completed, joined, run_result,
                   lines, flushes>>

\* main.rs lines 135-160, the run as the file system sees it: downloads that
\* got as far as File::create leave their file; a per-object run is Ok only
\* if every download created its file; a bulk download writes what it likes
RunOnDisk ==
    /\ pc = "run"
    /\ LET downloads == {i \in DOMAIN W.tasks : W.tasks[i].action = "Download"}
           creatable == {i \in downloads : Creatable(fs, W.tasks[i].key)}
       IN  \E created \in SUBSET creatable, res \in {Ok, Err("Fail", "run", NoTask)} :
              /\ (res = Ok /\ PerObjectMode(runner.val)) => created = downloads
              /\ fs' = fs \cup {Entry(W.tasks[i].key, FALSE) : i \in created}
              /\ run_result' = res
              /\ IF Propagates(res)
                 THEN Return(res) /\ UNCHANGED <<log, lines>>
                 ELSE /\ log' = Append(log, "run")
                      /\ lines' = Append(lines, run_num)
                      /\ pc' = "check"
                      /\ UNCHANGED <<telemetry, exec_result, exit_code>>
    /\ UNCHANGED <<stream, span_exporter, json_exporter, rb_size, rb_pc, data, received, args, runner, run_num, now, app_start, run_start,
                   run_secs, spawn_todo, task_set, completed, joined, flushes>>

PrepNext ==
    \/ PrepareRunOnDisk
    \/ StartTimer
    \/ RunOnDisk
    \/ CheckBudget

PrepSpec == PrepInit /\ [][PrepNext]_vars

\* ---- state descriptions used by the properties ----

PerObject == runner.some /\ runner.val.transfer_path.t = "None"

NumTasks == Len(W.tasks)

RunFailed == run_result.t \in {"Err", "Panic"}

TaskFailure == RunFailed /\ run_result.who = "task"

\* positions of task_set holding task index i
PositionsOf(i) == {p \in DOMAIN task_set : task_set[p].idx = i}

\* exactly one task has come to an end, with an error; its siblings are running
OnlyOneFailed ==
    /\ pc = "join"
    /\ Len(task_set) >= 2
    /\ Len(completed) = 1
    /\ task_set[completed[1]].st = "err"

\* run() has returned the error of that task, and still nothing else completed
ReturnedItsError ==
    /\ Len(completed) = 1
    /\ run_result = Err("Fail", "task", task_set[completed[1]].idx)

\* C1: fail-fast. In per-object mode, once one task has failed while all other
\* tasks are running, run() returns that task's error unless another task
\* completes first: it never needs another task to complete.
C1_FailFast == OnlyOneFailed ~> (ReturnedItsError \/ Len(completed) >= 2)

\* run() has returned task 1's error while its two siblings never completed
C1_Witness ==
    /\ pc = "run_done"
    /\ Len(task_set) = 3
    /\ run_result = Err("Fail", "task", 1)
    /\ \A p \in DOMAIN task_set : task_set[p].idx # 1 => task_set[p].st = "aborting"

Range(f) == {f[x] : x \in DOMAIN f}

Failed(st) == st \in {"err", "panic"}

\* C2: first error wins. The failure run() reports is that of the first task,
\* in completion order, that ended in a failure (every completion before it
\* was a success), and once reported it is never replaced by a later one.
C2_FirstErrorWins ==
    /\ [](TaskFailure =>
            \E m \in 1..Len(completed) :
               /\ task_set[completed[m]].idx = run_result.idx
               /\ task_set[completed[m]].st =
                      (IF run_result.t = "Err" THEN "err" ELSE "panic")
               /\ \A n \in 1..(m - 1) : task_set[completed[n]].st = "ok")
    /\ [][RunFailed => run_result' = run_result]_vars

\* task 2 failed first and is reported; task 0 failed after it and is not
C2_Witness ==
    /\ pc = "run_done"
    /\ Len(completed) >= 2
    /\ task_set[completed[1]].idx = 2
    /\ task_set[completed[1]].st = "err"
    /\ task_set[completed[2]].idx = 0
    /\ Failed(task_set[completed[2]].st)
    /\ run_result = Err("Fail", "task", 2)

\* C3 as stated: siblings of a failed task are never cancelled, they run until
\* they end on their own.
C3_Original ==
    \A p \in DOMAIN task_set : task_set[p].st \notin {"aborting", "cancelled"}

\* C3, amended: when run() returns the first failure its JoinSet is dropped,
\* which aborts every sibling still in flight: none is left running unaborted,
\* and whatever an aborted sibling still does changes nothing run() or
\* execute() reported.
C3_SiblingsAborted ==
    /\ [](TaskFailure => \A p \in DOMAIN task_set : task_set[p].st # "running")
    /\ [][(\E p \in DOMAIN task_set :
              /\ p \in DOMAIN task_set'
              /\ task_set[p].st = "aborting"
              /\ task_set'[p].st # "aborting")
          => UNCHANGED <<pc, run_result, exec_result, exit_code, completed,
                         joined, lines, run_num>>]_vars

\* execute has returned the first failure, one sibling was cancelled and
\* another is still on its way to its next await point
C3_Witness ==
    /\ pc = "main"
    /\ TaskFailure
    /\ \E p, q \in DOMAIN task_set :
          task_set[p].st = "cancelled" /\ task_set[q].st = "aborting"

\* C4: in per-object mode, once the spawn loop is over the JoinSet holds exactly
\* one task for every task index 0..N-1, and run() has returned Ok only if all
\* N of them ended successfully.
C4_OneTaskPerIndex ==
    (PerObject /\ pc \in {"join", "run_done", "measure", "flush", "print", "check"})
    => /\ Len(task_set) = NumTasks
       /\ \A i \in 0..(NumTasks - 1) : Cardinality(PositionsOf(i)) = 1
       /\ run_result = Ok =>
             \A p \in DOMAIN task_set : task_set[p].st = "ok"

\* a second successful run of three tasks
C4_Witness ==
    /\ PerObject
    /\ pc = "measure"
    /\ run_num = 2
    /\ NumTasks = 3
    /\ run_result = Ok

\* C5: runs are sequential. While the next run is prepared and started, no task
\* spawned by the run before it is still running.
C5_RunsSequential ==
    pc \in {"prepare", "timer", "run"} =>
        \A p \in DOMAIN task_set : task_set[p].st \notin {"running", "aborting"}

\* run 2 is being prepared after a run of three tasks
C5_Witness ==
    /\ pc = "prepare"
    /\ run_num = 2
    /\ Len(task_set) = 3

\* C6: the number of runs never exceeds maxRepeatCount; after a completed run
\* the loop stops if the elapsed time exceeds maxRepeatSecs and otherwise
\* starts the next run, if one is left; execute returns Ok only from that
\* check (or at once when maxRepeatCount is 0), never from within a run.
C6_RepeatBudget ==
    /\ [](runner.some =>
            (run_num <= W.max_repeat_count /\ Len(lines) <= W.max_repeat_count))
    /\ [][(pc = "check" /\ pc' # "check") =>
             IF now - app_start > W.max_repeat_secs
             THEN pc' = "main" /\ exec_result' = Ok /\ run_num' = run_num
             ELSE IF run_num < W.max_repeat_count
             THEN pc' = "prepare" /\ run_num' = run_num + 1
             ELSE pc' = "main" /\ exec_result' = Ok]_vars
    /\ [][(exec_result # Ok /\ exec_result' = Ok) =>
             pc \in {"check", "start_loop"}]_vars

\* C7: with maxRepeatCount >= 1, a budget found exhausted at the check after
\* the first run ends the loop with exactly one run; and an error-free
\* benchmark has performed at least one run however small maxRepeatSecs is
\* (exactly one when it is 0).
C7_AtLeastOneRun ==
    /\ [][(pc = "check" /\ run_num = 1 /\ pc' # "check"
           /\ now - app_start >= W.max_repeat_secs)
          => (pc' = "main" /\ exec_result' = Ok /\ lines' = <<1>>)]_vars
    /\ []((exit_code = ExitOk /\ runner.some /\ W.max_repeat_count >= 1)
          => /\ Len(lines) >= 1
             /\ W.max_repeat_secs = 0 => lines = <<1>>)

\* two runs allowed, no time at all: one run was performed
C7_Witness ==
    /\ runner.some
    /\ exit_code = ExitOk
    /\ W.max_repeat_count = 2
    /\ W.max_repeat_secs = 0
    /\ lines = <<1>>

Phases(with_telemetry) ==
    IF with_telemetry
    THEN <<"prepare", "timer_start", "run", "timer_read", "flush", "print", "check">>
    ELSE <<"prepare", "timer_start", "run", "timer_read", "print", "check">>

IsPrefix(a, b) == Len(a) <= Len(b) /\ \A i \in 1..Len(a) : a[i] = b[i]

\* C8: every iteration goes through prepare, timer start, run, timer read,
\* (flush,) result line, budget check in this order; the timer is read only
\* after run() returned Ok; the lines printed are 1, 2, .. one per completed run.
C8_PhaseOrder ==
    /\ IsPrefix(log, Phases(args.telemetry))
    /\ "timer_read" \in Range(log) => run_result = Ok
    /\ \A k \in 1..Len(lines) : lines[k] = k
    /\ pc \in LoopPcs =>
          Len(lines) = (IF pc = "check" THEN run_num ELSE run_num - 1)
    /\ pc \in {"measure", "flush", "print", "check"} => run_result = Ok

\* the second iteration with telemetry went through all its phases
C8_Witness ==
    /\ args.telemetry
    /\ run_num = 2
    /\ log = Phases(TRUE)
    /\ lines = <<1, 2>>
    /\ Len(flushes) = 2 /\ flushes[1].run = 1 /\ flushes[2].run = 2

\* C9: a failed run ends the benchmark. After run() failed no run is prepared
\* or started any more, no line is printed for the failed run, and the failure
\* reaches main, which ends the process with a non-zero status.
C9_FailureEndsBenchmark ==
    /\ [](RunFailed =>
            /\ pc \in {"run_done", "main", "exited"}
            /\ Len(lines) = run_num - 1
            /\ run_num \notin Range(lines)
            /\ (pc = "main" => exec_result = run_result)
            /\ (pc = "exited" => exit_code \in {ExitPanic, ExitSkip}))
    /\ [][RunFailed => (run_num' = run_num /\ lines' = lines /\ log' = log)]_vars

\* the second run failed: one line, for run 1, and a panic status
C9_Witness ==
    /\ pc = "exited"
    /\ RunFailed
    /\ run_num = 2
    /\ lines = <<1>>
    /\ exit_code = ExitPanic

SkipReturned == exec_result.t = "Err" /\ exec_result.kind = "Skip"

LoaderSkips ==
    args.file = "garbage" \/ (args.file = "ok" /\ args.json.version # 2)

\* C10: a benchmark process ends with 0 iff execute returned Ok, with 123 iff
\* it returned a Skip error, and with the panic status otherwise (an error
\* that is not a Skip, or a panic inside execute); a Skip raised by the loader
\* or by run() is what execute returns.
C10_SkipFailDisjoint ==
    args.command = "RunBenchmark" =>
        /\ pc # "exited" => exit_code = NotExited
        /\ pc = "exited" =>
              exit_code = (IF exec_result = Ok THEN 0
                           ELSE IF SkipReturned THEN 123
                           ELSE 101)
        /\ (pc \in {"main", "exited"} /\ run_result.t = "Err")
              => exec_result = run_result
        /\ (exec_result # Pending /\ LoaderSkips) => SkipReturned

\* a Skip raised by run() ended the process with 123
C10_Witness ==
    /\ pc = "exited"
    /\ run_result.t = "Err"
    /\ run_result.kind = "Skip"
    /\ exit_code = 123

\* ---- the loader ----

UnsupportedVersion ==
    args.command = "RunBenchmark" /\ args.file = "ok" /\ args.json.version # SupportedVersion

LoaderReturned == pc \in {"main", "exited"} /\ exec_result # Pending

\* C11: for a workload file whose version is not the supported one (2),
\* BenchmarkConfig::new gives a Skip error: not another error and not a
\* configuration. No runner is created, no run is prepared or started, nothing
\* is printed, and what execute returns is that Skip.
C11_UnsupportedVersionSkips ==
    UnsupportedVersion =>
        /\ BenchmarkConfig_new(args).t = "Err"
        /\ IsSkip(BenchmarkConfig_new(args))
        /\ ~runner.some
        /\ run_num = 0
        /\ log = <<>>
        /\ lines = <<>>
        /\ task_set = <<>>
        /\ pc \in {"execute", "new_runner", "main", "exited"}
        /\ LoaderReturned => exec_result = BenchmarkConfig_new(args)

C11_Witness ==
    /\ UnsupportedVersion
    /\ args.json.version = 3
    /\ pc = "main"
    /\ SkipReturned
    /\ exec_result.who = "version"

\* C12: a workload file that opens but does not parse makes the loader return
\* a Skip error, execute returns it, and the process ends with exit status 123,
\* not with the status of a failure.
C12_UnparsableFileSkips ==
    (args.command = "RunBenchmark" /\ args.file = "garbage") =>
        /\ IsSkip(BenchmarkConfig_new(args))
        /\ ~runner.some
        /\ LoaderReturned => SkipReturned /\ exec_result.who = "parse"
        /\ (pc = "exited" /\ exec_result # Pending) => exit_code = ExitSkip

C12_Witness ==
    /\ args.file = "garbage"
    /\ args.telemetry
    /\ pc = "exited"
    /\ exec_result = Err("Skip", "parse", NoTask)
    /\ exit_code = ExitSkip

\* ---- the bytes of a download ----

\* no download task of the run just ended got another number of bytes than
\* its size: a task of the JoinSet ends "ok" only with exactly its size
\* (download, line 169), a bulk download records the bytes per task
DownloadsExact ==
    /\ \A p \in DOMAIN task_set :
          W.tasks[task_set[p].idx + 1].action = "Download" => task_set[p].st = "ok"
    /\ \A i \in DOMAIN received : received[i] = W.tasks[i].size

\* C13: in either transfer strategy, a run that is reported as successful
\* (run() returned Ok, or its "Run:<n>" line was printed) delivered to every
\* download task exactly the bytes of its size.
C13_DownloadSizeVerified ==
    (runner.some /\ pc \in {"run_done", "measure", "flush", "print", "check"}
                 /\ run_result = Ok)
        => DownloadsExact

\* ---- the transfer strategy ----

\* d is p or a directory above p
IsAncestor(d, p) ==
    /\ d.abs = p.abs
    /\ Len(d.comps) <= Len(p.comps)
    /\ SubSeq(p.comps, 1, Len(d.comps)) = d.comps

\* the directories every key of the tasks lies in: a directory has a name or
\* is the root "/", the empty path names none
SharedDirs(tasks) ==
    IF tasks = <<>> THEN {}
    ELSE LET k == tasks[1].key
         IN  {d \in {Path(k.abs, SubSeq(k.comps, 1, n)) : n \in 0..Len(k.comps)} :
                 /\ d # Path(FALSE, <<>>)
                 /\ \A i \in DOMAIN tasks : IsAncestor(d, tasks[i].key) /\ d # tasks[i].key}

Deepest(dirs) == CHOOSE d \in dirs : \A e \in dirs : Len(e.comps) <= Len(d.comps)

SameAction(tasks) == \A i \in DOMAIN tasks : tasks[i].action = tasks[1].action

DirectoryEligible ==
    /\ args.json.files_on_disk
    /\ ~args.disable_directory
    /\ Len(args.json.tasks) >= 2

Selected == pc # "new_runner"

\* C14: the Directory strategy is selected only if the workload is on disk,
\* directory mode is not disabled, there are at least two tasks, every task
\* has the same action and every key lies in a common directory.
C14_DirectoryOnlyIf ==
    (runner.some /\ runner.val.transfer_path.t = "Some") =>
        /\ DirectoryEligible
        /\ SameAction(args.json.tasks)
        /\ SharedDirs(args.json.tasks) # {}

\* C15: for on-disk tasks of one action, the Directory prefix is the deepest
\* directory every key lies in, followed by the delimiter; when the keys lie
\* in no common directory the strategy is PerObject.
C15_DeepestCommonDir ==
    (Selected /\ DirectoryEligible /\ SameAction(args.json.tasks)) =>
        /\ runner.some
        /\ IF SharedDirs(args.json.tasks) = {}
           THEN runner.val.transfer_path = [t |-> "None"]
           ELSE runner.val.transfer_path =
                    [t |-> "Some", path |-> ToStr(Deepest(SharedDirs(args.json.tasks))) \o <<"/">>]

\* C16: when directory mode is eligible, the keys lie in a common directory
\* and the tasks mix Download and Upload, building the runner panics: the
\* process dies with the panic status, no runner exists (neither a PerObject
\* nor a Directory one).
C16_MixedActionsFatal ==
    (Selected /\ DirectoryEligible /\ SharedDirs(args.json.tasks) # {}
              /\ ~SameAction(args.json.tasks)) =>
        /\ pc = "exited"
        /\ exit_code = ExitPanic
        /\ ~runner.some
        /\ exec_result = Pending

C16_Witness ==
    /\ pc = "exited"
    /\ exit_code = ExitPanic
    /\ DirectoryEligible
    /\ Len(args.json.tasks) = 3
    /\ SharedDirs(args.json.tasks) = {Path(FALSE, <<"a">>)}
    /\ args.json.tasks[3].action # args.json.tasks[1].action
    /\ args.json.tasks[2].action = args.json.tasks[1].action

\* ---- checksums ----

\* C17: under a workload that configures a checksum no transfer is started
\* without it: every task handed to the JoinSet and every bulk call carries
\* the checksum, and a run that cannot carry it returns a Skip before any
\* transfer starts.
C17_ChecksumOrSkip ==
    (runner.some /\ W.checksum) =>
        /\ \A p \in DOMAIN task_set :
              CarriesChecksum(W, W.tasks[task_set[p].idx + 1].action, FALSE)
        /\ pc \in {"download_objects", "upload_objects"} =>
              CarriesChecksum(W, W.tasks[1].action, TRUE)

\* ---- prepare_run ----

\* C18: whenever prepare_run has succeeded on a workload on disk, in any run
\* of the loop, no file is at the destination of any Download task and the
\* directory the destination lies in is there.
C18_DownloadDestinationsReady ==
    (pc = "timer" /\ W.files_on_disk) =>
        \A i \in DOMAIN W.tasks :
            W.tasks[i].action = "Download" =>
                /\ ~IsFile(fs, W.tasks[i].key)
                /\ DirPresent(fs, Parent(W.tasks[i].key).val)

MissingSource ==
    \E i \in DOMAIN W.tasks : W.tasks[i].action = "Upload" /\ ~IsFile(fs, W.tasks[i].key)

\* C19: when a run of a workload on disk is prepared while the source file
\* of some Upload task is missing, prepare_run returns an error that is not a
\* Skip, execute returns it, and the run is not started: its timer is not
\* taken and nothing is printed for it.
C19_MissingSourceFails ==
    [][(pc = "prepare" /\ W.files_on_disk /\ MissingSource) =>
          /\ pc' = "main"
          /\ exec_result'.t = "Err"
          /\ ~IsSkip(exec_result')
          /\ run_start' = run_start
          /\ log' = log
          /\ lines' = lines
          /\ run_result' = run_result]_vars

C19_Witness ==
    /\ pc = "main"
    /\ run_num = 1
    /\ exec_result = Err("Fail", "prepare_run", 1)
    /\ log = <<>>
    /\ W.tasks[1].action = "Download"
    /\ W.tasks[2].action = "Upload"
    /\ ~IsFile(fs, W.tasks[2].key)

\* ---- the payload synthesizer ----

\* C20: for every size asked for, 0 included, new_random_bytes ends and what
\* it returns is exactly that long; while it fills the buffer the buffer is
\* never longer than the size.
C20_ExactLength ==
    /\ [](Len(data) <= rb_size)
    /\ [](rb_pc = "done" => Len(data) = rb_size)
    /\ <>(rb_pc = "done")

C20_Witness ==
    /\ rb_pc = "done"
    /\ rb_size > 2 * RandPrefix
    /\ rb_size % RandPrefix # 0
    /\ Len(data) = rb_size

\* the length of the random prefix of the buffer asked for
RandLen == Min(RandPrefix, rb_size)

\* the len bytes of d from offset lo on
SliceAt(d, lo, len) == SubSeq(d, lo + 1, lo + len)

\* C21 as stated: two non-overlapping slices of equal length of the buffer
\* returned, whose offsets are at least the prefix length apart, differ.
C21_Original ==
    rb_pc = "done" =>
        \A i \in 0..rb_size, j \in 0..rb_size, len \in 1..rb_size :
            (i + len <= j /\ j + len <= rb_size /\ j - i >= RandLen) =>
                SliceAt(data, i, len) # SliceAt(data, j, len)

\* C21: two slices of equal length of one buffer are byte-identical whenever
\* their offsets differ by a multiple of the prefix length; slices can differ
\* only if their offsets differ modulo the prefix length.
C21_SlicesRepeat ==
    rb_pc \in {"copy", "done"} =>
        \A i \in 0..Len(data), j \in 0..Len(data), len \in 1..Len(data) :
            (i <= j /\ j + len <= Len(data) /\ (j - i) % RandLen = 0) =>
                SliceAt(data, i, len) = SliceAt(data, j, len)

C21_Witness ==
    /\ rb_pc = "done"
    /\ rb_size >= 3 * RandPrefix
    /\ data[1] # data[2]
    /\ SliceAt(data, 0, RandPrefix) = SliceAt(data, 2 * RandPrefix, RandPrefix)

\* C29: the buffer is periodic with period rand_len = min(prefix, size) at
\* every moment and when it is returned with its full size: byte i is byte
\* (i mod rand_len). Only the fill writes fresh bytes, rand_len of them, and
\* every turn of the loop appends a copy of the first
\* min(length, size - length) bytes.
C29_Periodic ==
    /\ [](\A i \in 1..Len(data) : data[i] = data[((i - 1) % RandLen) + 1])
    /\ [](rb_pc = "done" => Len(data) = rb_size)
    /\ [][/\ rb_pc = "start" => Len(data') = RandLen
          /\ rb_pc = "copy" =>
                data' \in {data, data \o SubSeq(data, 1, Min(Len(data), rb_size - Len(data)))}]_vars

C29_Witness ==
    /\ rb_pc = "done"
    /\ rb_size = 2 * RandPrefix + 1
    /\ data[1] # data[2]
    /\ data[rb_size] = data[1]

\* ---- C22 ----
\* C22: the payload is as long as the largest Upload task of a workload whose
\* files are not on disk, and empty when the files are on disk or no task
\* uploads; so every upload task that takes its body from the payload gets the
\* first `size` bytes of it (the slice never reaches past the end), and taking
\* the bodies, in any order, leaves the payload as it was.
UploadSizes == {args.json.tasks[i].size :
                   i \in {j \in DOMAIN args.json.tasks : args.json.tasks[j].action = "Upload"}}

C22_PayloadCoversUploads ==
    /\ [](rb_pc = "done" =>
            /\ \A sz \in UploadSizes : ~args.json.files_on_disk => sz <= Len(data)
            /\ (args.json.files_on_disk \/ UploadSizes = {}) => Len(data) = 0
            /\ (~args.json.files_on_disk /\ UploadSizes # {}) => Len(data) \in UploadSizes
            /\ \A s \in stream :
                  /\ s.ok
                  /\ s.src = "bytes" =>
                        /\ Len(s.val) = args.json.tasks[s.idx].size
                        /\ \A k \in 1..Len(s.val) : s.val[k] = data[k])
    /\ [][rb_pc = "done" => data' = data]_vars

\* two upload tasks of different sizes took their bodies from one payload
C22_Witness ==
    /\ rb_pc = "done"
    /\ \E s1, s2 \in stream :
          /\ s1.src = "bytes" /\ s2.src = "bytes"
          /\ s1.idx < s2.idx
          /\ 0 < Len(s2.val) /\ Len(s2.val) < Len(s1.val)
          /\ Len(s1.val) = Len(data)

\* ---- C24 ----
\* C24: with telemetry enabled, telemetry is flushed exactly once for every
\* run that completed: the k-th flush is the flush of run k, it is made right
\* after the elapsed time of that run was read and before its line is printed.
\* A flush that fails is not fatal: the step after any flush is the printing
\* of the line of the run, execute() neither returns nor panics on it, and the
\* loop goes on to the budget test as after a flush that succeeded.
C24_FlushOncePerRun ==
    /\ [](/\ \A k \in DOMAIN flushes : flushes[k].run = k
          /\ args.telemetry => Len(flushes) \in {Len(lines), Len(lines) + 1}
          /\ pc = "print" /\ telemetry = "active" => Len(flushes) = run_num
          /\ pc = "check" /\ telemetry = "active" =>
                Len(flushes) = run_num /\ Len(lines) = run_num
          /\ ~args.telemetry => flushes = <<>>)
    /\ [][/\ flushes' # flushes =>
                /\ log # <<>> /\ log[Len(log)] = "timer_read"
                /\ flushes' = Append(flushes, [run |-> run_num, ok |-> flushes'[Len(flushes')].ok])
          /\ pc = "flush" =>
                /\ pc' \in {"flush", "print"}
                /\ exit_code' = NotExited /\ exec_result' = Pending
                /\ pc' = "print" /\ telemetry = "active" => Len(flushes') = Len(flushes) + 1
          /\ pc = "print" /\ pc' # pc => lines' = Append(lines, run_num) /\ pc' = "check"]_vars

\* the flush of run 1 failed; its line was printed and run 2 was made and flushed
C24_Witness ==
    /\ args.telemetry
    /\ Len(flushes) = 2
    /\ ~flushes[1].ok
    /\ lines = <<1, 2>>

\* ---- C25 ----
\* C25: the handle of the runner (the workload configuration, the concurrency
\* the transfer manager was built with, the payload for uploads and the
\* transfer strategy) is made once, when the runner is constructed, from the
\* arguments and the workload file; no later step (preparing a run, a run,
\* a task, a flush, the return of execute) changes any part of it.
C25_HandleComputedOnce ==
    /\ [][/\ runner.some => runner' = runner
          /\ runner' # runner => pc = "new_runner" /\ runner'.some]_vars
    /\ [](runner.some =>
            /\ runner.val.workload = args.json
            /\ runner.val.concurrency.val = args.target_throughput \div 10
            /\ \A i \in DOMAIN args.json.tasks :
                  (args.json.tasks[i].action = "Upload" /\ ~args.json.files_on_disk)
                     => args.json.tasks[i].size <= runner.val.random_data_for_upload
            /\ runner.val.transfer_path =
                  find_common_parent_dir(args.json, args.disable_directory))

\* two runs of an upload workload with a payload were made and reported
C25_Witness ==
    /\ runner.some
    /\ runner.val.random_data_for_upload > 0
    /\ lines = <<1, 2>>
    /\ \E p \in DOMAIN task_set : W.tasks[task_set[p].idx + 1].action = "Upload"

C23_Original ==
    runner.some =>
        LET x == args.target_throughput
            sized == (x * 25) \div 100
        IN  /\ runner.val.concurrency.val = (IF sized >= 10 THEN sized ELSE 10)
            /\ runner.val.concurrency.val >= 10

\* C23, amended: the runner computes no number of concurrent operations. It
\* builds the transfer manager with ConcurrencyMode::TargetThroughput of the
\* target throughput cut down to whole gigabits per second: floor(x), which
\* never decreases when x grows, and which is 0, not 10, for x below 1.
C23_TargetThroughput ==
    runner.some =>
        LET x == args.target_throughput
            c == runner.val.concurrency
        IN  /\ c.mode = "TargetThroughput"
            /\ c.val * 10 <= x /\ x < (c.val + 1) * 10
            /\ x < 10 => c.val = 0
            /\ \A y \in 0..MaxThroughput : y <= x => y \div 10 <= c.val

\* the runner was built for a target of 0.5 gigabits per second
C23_Witness ==
    /\ runner.some
    /\ args.target_throughput = 5
    /\ runner.val.concurrency.val = 0

\* ---- C27 ----
\* who holds batch b: the queue, a call of flush_to_file that is under way, or
\* a call that returned
Holders(b) ==
    {<<"queue", 0>> : x \in {k \in DOMAIN span_exporter.queued_batches :
                                span_exporter.queued_batches[k] = b}}
    \cup {<<"flush", span_exporter.flush[c].id>> :
             c \in {d \in Clones : \E k \in DOMAIN span_exporter.flush[d].taken :
                                      span_exporter.flush[d].taken[k] = b}}
    \cup {<<"flush", span_exporter.returned[i].id>> :
             i \in {j \in DOMAIN span_exporter.returned :
                       \E k \in DOMAIN span_exporter.returned[j].taken :
                          span_exporter.returned[j].taken[k] = b}}

Increasing(q) == \A k \in 1..(Len(q) - 1) : q[k] < q[k + 1]

\* the batches taken by the calls of flush_to_file, by the number of the call
TakenBy ==
    {[id |-> span_exporter.flush[c].id, taken |-> span_exporter.flush[c].taken] :
        c \in {d \in Clones : span_exporter.flush[d].pc = "drained"}}
    \cup {[id |-> span_exporter.returned[i].id, taken |-> span_exporter.returned[i].taken] :
             i \in DOMAIN span_exporter.returned}

\* C27: with exports and flushes of the clones interleaved in any way, every
\* batch exported so far is either still queued or was taken by exactly one
\* call of flush_to_file, never by none and never by two; the queue and every
\* call hold their batches in the order they were exported, a later call
\* holds only batches exported after those of an earlier call; and export
\* always returns Ok.
C27_EachBatchTakenOnce ==
    /\ \A b \in 1..span_exporter.exported : Cardinality(Holders(b)) = 1
    /\ Increasing(span_exporter.queued_batches)
    /\ \A t \in TakenBy : Increasing(t.taken)
    /\ \A t1, t2 \in TakenBy :
          t1.id < t2.id =>
             \A k1 \in DOMAIN t1.taken, k2 \in DOMAIN t2.taken : t1.taken[k1] < t2.taken[k2]
    /\ \A t \in TakenBy : \A k \in DOMAIN t.taken :
          \A q \in DOMAIN span_exporter.queued_batches :
             t.taken[k] < span_exporter.queued_batches[q]
    /\ span_exporter.exported > 0 => span_exporter.export_result = Some(Ok)

\* two calls took batches, one of them is still under way, a batch is queued
C27_Witness ==
    /\ span_exporter.queued_batches # <<>>
    /\ \E c \in Clones :
          /\ span_exporter.flush[c].pc = "drained"
          /\ span_exporter.flush[c].taken # <<>>
    /\ \E i \in DOMAIN span_exporter.returned : span_exporter.returned[i].taken # <<>>

\* ---- C28 ----
\* C28: flush_to_file empties the queue before it opens the file. While a
\* call is about to open its file, and after it returned, with Ok or with an
\* error, none of the batches that were queued when it was called is on the
\* queue; a failed call does not leave them there. These batches are in no
\* file but the one this call created, so no later flush writes them.
C28_DrainedBeforeOpen ==
    /\ \A c \in Clones :
          span_exporter.flush[c].pc = "drained" =>
             /\ ~FileExists({f \in span_exporter.files : f.by = span_exporter.flush[c].id},
                            span_exporter.flush[c].path)
             /\ \A k \in DOMAIN span_exporter.flush[c].taken :
                   span_exporter.flush[c].taken[k] \notin Range(span_exporter.queued_batches)
    /\ \A i \in DOMAIN span_exporter.returned :
          LET r == span_exporter.returned[i]
          IN  \A k \in DOMAIN r.at_start :
                 /\ r.at_start[k] \notin Range(span_exporter.queued_batches)
                 /\ \A f \in span_exporter.files :
                       r.at_start[k] \in Range(f.batches) => f.by = r.id

\* a call that held batches failed because its file existed; a later call
\* wrote later batches to another file
C28_Witness ==
    \E i, j \in DOMAIN span_exporter.returned :
       LET r == span_exporter.returned[i]
           l == span_exporter.returned[j]
       IN  /\ i < j
           /\ r.res = "Err" /\ r.at_start # <<>>
           /\ \A f \in span_exporter.files : f.by # r.id
           /\ l.res = "Ok" /\ l.at_start # <<>>
           /\ \E f \in span_exporter.files : f.by = l.id /\ f.batches = l.at_start

\* ---- C30 ----
\* C30: the life of a JsonSpanExporter. Before shutdown every export that
\* succeeds has written the batch it was given, followed by a newline; after
\* shutdown every export returns the error "exporter is shut down" and writes
\* nothing; shutdown can be repeated and changes nothing the second time; an
\* exporter that was shut down never has a writer again.
C30_Lifecycle ==
    [][/\ json_exporter'.exports = json_exporter.exports + 1 =>
             IF json_exporter.writer
             THEN /\ json_exporter'.result # Some(ExportErr("exporter is shut down"))
                  /\ json_exporter'.result = Some(ExportOk) =>
                        json_exporter'.out =
                           json_exporter.out \o <<Json(json_exporter'.batch), Newline>>
             ELSE /\ json_exporter'.result = Some(ExportErr("exporter is shut down"))
                  /\ json_exporter'.out = json_exporter.out
       /\ json_exporter'.shutdowns = json_exporter.shutdowns + 1 =>
             /\ ~json_exporter'.writer
             /\ json_exporter'.out = json_exporter.out
       /\ ~json_exporter.writer => ~json_exporter'.writer]_vars

\* ---- C31 ----
\* C31: a workload file that cannot be opened is a failure, not a Skip. The
\* loader returns an error that is no Skip, no runner is made and nothing is
\* run; execute returns that error and the process ends with the status of a
\* panic, never with 123. The loader skips only for a file that does not
\* parse and for a version that is not supported.
C31_UnopenableFileFails ==
    /\ (args.command = "RunBenchmark" /\ args.file = "missing") =>
          /\ ~runner.some
          /\ run_num = 0 /\ lines = <<>> /\ task_set = <<>>
          /\ exec_result # Ok
          /\ exec_result # Pending =>
                /\ exec_result.t = "Err"
                /\ exec_result.kind # "Skip"
                /\ exec_result.who = "open"
          /\ exit_code # ExitSkip
          /\ pc = "exited" => exit_code = ExitPanic
    /\ (args.command = "RunBenchmark" /\ exec_result.t = "Err"
          /\ exec_result.kind = "Skip" /\ ~runner.some) =>
          \/ args.file = "garbage" /\ exec_result.who = "parse"
          \/ /\ args.file = "ok" /\ args.json.version # SupportedVersion
             /\ exec_result.who = "version"

\* the file could not be opened: execute returned the failure, main panicked
C31_Witness ==
    /\ args.command = "RunBenchmark"
    /\ args.file = "missing"
    /\ args.telemetry
    /\ pc = "exited"
    /\ exec_result = Err("Fail", "open", NoTask)
    /\ exit_code = ExitPanic
    /\ telemetry = "down"

====
